---------------------------- MODULE Spec2Model ----------------------------
(***************************************************************************)
(* A model of the `ag` command line assistant: the client construction,    *)
(* the stream aggregator (AIClient.process_stream), the text and image     *)
(* request builders and the click command (cli) with its three modes.      *)
(*                                                                         *)
(* Python values are modelled as follows.                                  *)
(*   str            a sequence of one-character strings                    *)
(*   Optional[x]    <<>> for None, <<x>> for a value                       *)
(*   exception      a record [type, origin, arg]; the origin tells the     *)
(*                  raise sites apart: "the same failure" is an equality   *)
(***************************************************************************)
EXTENDS Integers, Sequences, FiniteSets, TLC

\* ------------------------------------------------------------------ bounds
\* Longest fragment sequence handed to process_stream on its own.
MaxFragments == 3
\* Longest fragment sequence the transport yields for one request of the
\* command or of image_text_completion.
MaxCliFragments == 2
\* Most lines click.prompt returns in one interactive session.
MaxLines == 3

\* ------------------------------------------------------------ Python values
None == <<>>

Some(x) == <<x>>

\* Python truthiness of an Optional[str]: None and "" are falsy.
Truthy(o) == o # None /\ o[1] # <<>>

\* Python's `a or b` on Optional[str] values.
Or(a, b) == IF Truthy(a) THEN a ELSE b

RECURSIVE Concat(_)
\* The concatenation of a sequence of strings, in order.
Concat(ss) == IF ss = <<>> THEN <<>> ELSE Head(ss) \o Concat(Tail(ss))

\* The exception classes the model tells apart, each with its base classes
\* (itself included), as Python's isinstance sees them.
Bases(t) ==
    CASE t = "FileNotFoundError" -> {"FileNotFoundError", "OSError", "Exception", "BaseException"}
      [] t = "TimeoutError" -> {"TimeoutError", "OSError", "Exception", "BaseException"}
      [] t = "OSError" -> {"OSError", "Exception", "BaseException"}
      [] t = "ValueError" -> {"ValueError", "Exception", "BaseException"}
      [] t = "APIConnectionError" -> {"APIConnectionError", "Exception", "BaseException"}
      [] t = "NotImplementedError" ->
            {"NotImplementedError", "RuntimeError", "Exception", "BaseException"}
      [] t = "Abort" -> {"Abort", "RuntimeError", "Exception", "BaseException"}
      [] t = "KeyboardInterrupt" -> {"KeyboardInterrupt", "BaseException"}

IsInstance(e, cls) == cls \in Bases(e.type)

\* What the transport may raise, at call time or while the stream is read.
TransportErrors ==
    {"TimeoutError", "OSError", "ValueError", "APIConnectionError", "KeyboardInterrupt"}

\* An exception: its class, where it was raised, and its argument (a string).
Exc(t, origin, arg) == [type |-> t, origin |-> origin, arg |-> arg]

\* ---------------------------------------------------------------- fragments
Usage(p, c) == [prompt_tokens |-> p, completion_tokens |-> c, total_tokens |-> p + c]

U1 == Usage(3, 2)

U2 == Usage(7, 1)

\* A chunk as process_stream probes it: hasattr(chunk, "choices"), the
\* choices list, hasattr(choices[0], "delta"), hasattr(delta, "content"), the
\* content (Optional[str]), hasattr(chunk, "usage"), the usage (Optional).
Chunk(hc, n, hd, hcont, content, hu, usage) ==
    [has_choices |-> hc,
     choices |-> [i \in 1..n |-> [has_delta |-> hd, has_content |-> hcont, content |-> content]],
     has_usage |-> hu, usage |-> usage]

Text(s, hu, usage) == Chunk(TRUE, 1, TRUE, TRUE, Some(s), hu, usage)

He == <<"H", "e">>

llo == <<"l", "l", "o">>

\* The fragments a stream is made of: malformed ones, ones without text, text
\* deltas with and without a usage payload, and the usage-only final chunk.
Fragments ==
    { Chunk(FALSE, 0, FALSE, FALSE, None, FALSE, None),
      Chunk(TRUE, 0, FALSE, FALSE, None, TRUE, Some(U1)),
      Chunk(TRUE, 0, FALSE, FALSE, None, TRUE, Some(U2)),
      Chunk(TRUE, 1, FALSE, FALSE, None, TRUE, None),
      Chunk(TRUE, 1, TRUE, FALSE, None, TRUE, None),
      Chunk(TRUE, 1, TRUE, TRUE, None, TRUE, None),
      Text(<<>>, TRUE, None),
      Text(He, TRUE, None),
      Text(llo, TRUE, None),
      Text(He, TRUE, Some(U1)),
      Text(llo, TRUE, Some(U2)),
      Text(He, FALSE, None) }

\* The fragments the transport yields when a request is dispatched.
CliFragments ==
    { Text(He, TRUE, None),
      Text(llo, TRUE, Some(U1)),
      Chunk(TRUE, 0, FALSE, FALSE, None, TRUE, Some(U2)) }

\* -------------------------------------------------------------------- state
VARIABLES
    entry,          \* the function under execution: "process_stream", "AIClient",
                    \* "image_text_completion" or "cli"
    pc,             \* the position of the execution
    exc,            \* Optional: the exception propagating (pc = "raised") or caught
    print_output,   \* process_stream: its print_output argument
    chunks,         \* process_stream: the chunks the for loop has taken so far
    stream_error,   \* process_stream: Optional, what the iterator raised
    full_response,  \* process_stream: its local full_response
    usage_info,     \* process_stream: its local usage_info (Optional)
    printed,        \* process_stream: what this call has printed, in order
    result,         \* Optional: the value the function under execution returned
    args,           \* AIClient.__init__: api_key, base_url, model as passed
    environ,        \* API_KEY, BASE_URL, MODEL as os.getenv sees them after load_dotenv
    resolved,       \* AIClient.__init__: api_key, base_url, model when validated
    client,         \* Optional: the AIClient constructed
    opts,           \* cli: text, image, path, prompt, start
    fs,             \* the files that exist: path -> bytes
    opened,         \* the paths opened for reading
    mode,           \* cli: the branch taken ("" before it is)
    lines,          \* cli: the lines click.prompt has returned
    call,           \* the arguments of the running text/image completion call
    requests,       \* the requests handed to the transport, in order
    echoed          \* what cli (click.echo) and create_client (print) have
                    \* written, in order

streamVars == <<print_output, chunks, stream_error, full_response, usage_info, printed>>

clientVars == <<args, environ, resolved, client>>

cliVars == <<opts, fs, opened, mode, lines, call, requests, echoed>>

vars == <<entry, pc, exc, result, streamVars, clientVars, cliVars>>

\* The fragments the iterator may yield and how many, by who built the stream.
StreamFragments == IF entry = "process_stream" THEN Fragments ELSE CliFragments

StreamBudget == IF entry = "process_stream" THEN MaxFragments ELSE MaxCliFragments

\* ------------------------------------------------------------ process_stream
\* The guard of the text branch: every hasattr and the non-empty choices.
HasContentAttr(chunk) ==
    /\ chunk.has_choices
    /\ chunk.choices # <<>>
    /\ chunk.choices[1].has_delta
    /\ chunk.choices[1].has_content

\* Mutant of Accumulate: the delta goes in front of the running string.
AccumulatePrepend(full, content) == content \o full

\* full_response += content
Accumulate(full, content) == full \o content

\* Mutant of Emit: the test of print_output is inverted.
EmitInverted(out, content, po) ==
    IF ~po THEN Append(out, [kind |-> "delta", text |-> content, usage |-> None, exc |-> None])
    ELSE out

\* print(content, end="", flush=True) when print_output
Emit(out, content, po) ==
    IF po THEN Append(out, [kind |-> "delta", text |-> content, usage |-> None, exc |-> None])
    ELSE out

\* Mutant of UpdateUsage: the first payload seen is kept.
UpdateUsageFirst(info, chunk) ==
    IF info = None /\ chunk.has_usage /\ chunk.usage # None THEN chunk.usage ELSE info

\* if hasattr(chunk, "usage") and chunk.usage: usage_info = chunk.usage
UpdateUsage(info, chunk) ==
    IF chunk.has_usage /\ chunk.usage # None THEN chunk.usage ELSE info

\* The usage summary printed after the loop, when there is one to print.
PrintUsage(out, info, po) ==
    IF info # None /\ po
    THEN Append(out, [kind |-> "usage", text |-> <<>>, usage |-> info, exc |-> None])
    ELSE out

\* The locals of process_stream as a call starts.
EnterStream(po) ==
    /\ print_output' = po
    /\ chunks' = <<>>
    /\ stream_error' = None
    /\ full_response' = <<>>
    /\ usage_info' = None
    /\ printed' = <<>>
    /\ pc' = "for"

\* The for statement takes the next chunk of the iterator.
NextChunk ==
    /\ pc = "for"
    /\ Len(chunks) < StreamBudget
    /\ \E chunk \in StreamFragments : chunks' = Append(chunks, chunk)
    /\ pc' = "body"
    /\ UNCHANGED <<entry, exc, result, print_output, stream_error, full_response,
                   usage_info, printed, clientVars, cliVars>>

\* The loop body on the chunk just taken.
ChunkBody ==
    /\ pc = "body"
    /\ LET chunk == chunks[Len(chunks)]
           content == IF HasContentAttr(chunk) THEN chunk.choices[1].content ELSE None
       IN /\ IF Truthy(content)
             THEN /\ full_response' = Accumulate(full_response, content[1])
                  /\ printed' = Emit(printed, content[1], print_output)
             ELSE UNCHANGED <<full_response, printed>>
          /\ usage_info' = UpdateUsage(usage_info, chunk)
    /\ pc' = "for"
    /\ UNCHANGED <<entry, exc, result, print_output, chunks, stream_error,
                   clientVars, cliVars>>

\* The iterator is exhausted: the usage summary, then return full_response.
StreamEnd ==
    /\ pc = "for"
    /\ printed' = PrintUsage(printed, usage_info, print_output)
    /\ result' = Some(full_response)
    /\ pc' = "returned"
    /\ UNCHANGED <<entry, exc, print_output, chunks, stream_error, full_response,
                   usage_info, clientVars, cliVars>>

\* Mutant of StreamExcept: the bare raise is missing and "" is returned.
StreamExceptSwallow(out, e, po) ==
    [printed |-> IF IsInstance(e, "Exception") /\ po
                 THEN Append(out, [kind |-> "error", text |-> <<>>, usage |-> None, exc |-> Some(e)])
                 ELSE out,
     exc |-> IF IsInstance(e, "Exception") THEN None ELSE Some(e),
     result |-> IF IsInstance(e, "Exception") THEN Some(<<>>) ELSE None]

\* The except clause of process_stream: the message when print_output, then
\* a bare raise. A BaseException that is no Exception passes it by.
StreamExcept(out, e, po) ==
    [printed |-> IF IsInstance(e, "Exception") /\ po
                 THEN Append(out, [kind |-> "error", text |-> <<>>, usage |-> None, exc |-> Some(e)])
                 ELSE out,
     exc |-> Some(e),
     result |-> None]

\* The iterator raises instead of yielding.
StreamRaise ==
    /\ pc = "for"
    /\ \E t \in TransportErrors :
          LET e == Exc(t, "stream", <<>>)
              after == StreamExcept(printed, e, print_output)
          IN /\ stream_error' = Some(e)
             /\ printed' = after.printed
             /\ exc' = after.exc
             /\ result' = after.result
             /\ pc' = IF after.exc = None THEN "returned" ELSE "raised"
    /\ UNCHANGED <<entry, print_output, chunks, full_response, usage_info,
                   clientVars, cliVars>>

\* Values for the variables a specification does not exercise.
NoClient == /\ args = [api_key |-> None, base_url |-> None, model |-> None]
            /\ environ = [API_KEY |-> None, BASE_URL |-> None, MODEL |-> None]
            /\ resolved = None
            /\ client = None

NoCli == /\ opts = None
         /\ fs = <<>>
         /\ opened = {}
         /\ mode = ""
         /\ lines = <<>>
         /\ call = None
         /\ requests = <<>>
         /\ echoed = <<>>

\* process_stream called on its own, on any stream, printing or not.
InitStream ==
    /\ entry = "process_stream"
    /\ pc = "for"
    /\ exc = None
    /\ result = None
    /\ print_output \in BOOLEAN
    /\ chunks = <<>>
    /\ stream_error = None
    /\ full_response = <<>>
    /\ usage_info = None
    /\ printed = <<>>
    /\ NoClient
    /\ NoCli

NextStream == NextChunk \/ ChunkBody \/ StreamEnd \/ StreamRaise

SpecStream == InitStream /\ [][NextStream]_vars

\* ------------------------------------------------- claims on process_stream
\* The text delta a fragment carries: the content of its first choice's
\* delta, "" when the fragment has none.
TextDelta(f) ==
    IF /\ f.has_choices
       /\ Len(f.choices) >= 1
       /\ f.choices[1].has_delta
       /\ f.choices[1].has_content
       /\ f.choices[1].content # None
    THEN f.choices[1].content[1]
    ELSE <<>>

\* The usage payload a fragment carries, None when it carries none.
UsagePayload(f) == IF f.has_usage THEN f.usage ELSE None

\* The text deltas of a fragment sequence, in arrival order.
Deltas(fs_) == [i \in 1..Len(fs_) |-> TextDelta(fs_[i])]

NonEmpty(s) == s # <<>>

\* The payload of the last fragment of the sequence that carries one.
LastUsage(fs_) ==
    LET carrying == {i \in 1..Len(fs_) : UsagePayload(fs_[i]) # None}
    IN IF carrying = {} THEN None
       ELSE UsagePayload(fs_[CHOOSE i \in carrying : \A j \in carrying : j <= i])

IsDelta(p) == p.kind = "delta"

IsUsage(p) == p.kind = "usage"

\* The texts process_stream has printed as deltas, in order.
EmittedDeltas == LET d == SelectSeq(printed, IsDelta) IN [i \in 1..Len(d) |-> d[i].text]

\* The chunks whose loop body has run.
Processed == IF pc = "body" THEN SubSeq(chunks, 1, Len(chunks) - 1) ELSE chunks

\* C1: when process_stream returns, the string it returns is the
\* concatenation, in arrival order, of the text deltas of the fragments it
\* consumed, whatever usage payloads they carry.
C1_ReturnsConcatenation ==
    (entry = "process_stream" /\ pc = "returned") => result = Some(Concat(Deltas(chunks)))

\* C1 witness: a returned "Hello" of two deltas with usage payloads around.
C1_Witness ==
    /\ entry = "process_stream" /\ pc = "returned"
    /\ result = Some(He \o llo)
    /\ Len(chunks) = 3
    /\ \E i \in 1..3 : UsagePayload(chunks[i]) # None /\ TextDelta(chunks[i]) = <<>>
    /\ \E i \in 1..3 : UsagePayload(chunks[i]) # None /\ TextDelta(chunks[i]) # <<>>

\* C2: with print_output, whenever the loop is about to take the next
\* fragment (and at the end) the deltas printed so far are exactly the
\* non-empty deltas of the fragments processed, once each, in order and
\* unchanged; a fragment taken but not yet processed has printed nothing;
\* and the string returned is the concatenation of the deltas printed.
C2_EmitsEachDeltaOnce ==
    (entry = "process_stream" /\ print_output) =>
        /\ EmittedDeltas = SelectSeq(Deltas(Processed), NonEmpty)
        /\ pc = "returned" => result = Some(Concat(EmittedDeltas))

\* C2 witness: two deltas printed, an empty one skipped, a third fragment taken.
C2_Witness ==
    /\ entry = "process_stream" /\ print_output /\ pc = "body"
    /\ Len(chunks) = 3
    /\ EmittedDeltas = <<llo>>
    /\ chunks[1] = Text(<<>>, TRUE, None)
    /\ TextDelta(chunks[3]) = He

\* C3: once the sequence is consumed the usage record held is the payload
\* of the last fragment that carried one, wherever it stood, and None when
\* none did; the summary printed (with print_output) is of that record, and
\* none is printed, and nothing raised, when there is no record.
C3_LastUsageWins ==
    (entry = "process_stream" /\ pc \in {"for", "returned"}) =>
        /\ usage_info = LastUsage(chunks)
        /\ pc = "returned" =>
             /\ exc = None
             /\ LET u == SelectSeq(printed, IsUsage)
                IN IF print_output /\ LastUsage(chunks) # None
                   THEN Len(u) = 1 /\ u[1].usage = LastUsage(chunks)
                        /\ printed[Len(printed)] = u[1]
                   ELSE u = <<>>

\* C3 witness: two different payloads, the later one on a non-final fragment.
C3_Witness ==
    /\ entry = "process_stream" /\ pc = "returned" /\ print_output
    /\ Len(chunks) = 3
    /\ UsagePayload(chunks[1]) = Some(U2)
    /\ UsagePayload(chunks[2]) = Some(U1)
    /\ UsagePayload(chunks[3]) = None
    /\ usage_info = Some(U1)

\* C3 witness of the absent case: a stream without any payload returns.
C3_WitnessAbsent ==
    /\ entry = "process_stream" /\ pc = "returned"
    /\ Len(chunks) = 2 /\ LastUsage(chunks) = None /\ usage_info = None

\* C4: when the iterator raises after k fragments, process_stream raises
\* that same exception and returns nothing; the deltas of the k fragments
\* stay printed, and after them comes no delta and no usage summary, only
\* (with print_output, for an Exception) the error message.
C4_ReraisesAndKeepsOutput ==
    (entry = "process_stream" /\ stream_error # None) =>
        /\ pc = "raised"
        /\ exc = stream_error
        /\ result = None
        /\ LET kept == SelectSeq(Deltas(chunks), NonEmpty)
               k == IF print_output THEN Len(kept) ELSE 0
           IN /\ Len(printed) \in {k, k + 1}
              /\ \A i \in 1..k : printed[i].kind = "delta" /\ printed[i].text = kept[i]
              /\ Len(printed) = k + 1 =>
                    /\ printed[k + 1].kind = "error"
                    /\ printed[k + 1].exc = stream_error
                    /\ print_output

\* C4 witness: a failure after two fragments, one delta printed, a usage
\* payload already seen.
C4_Witness ==
    /\ entry = "process_stream" /\ pc = "raised" /\ print_output
    /\ Len(chunks) = 2
    /\ EmittedDeltas = <<He>>
    /\ usage_info # None
    /\ exc = Some(Exc("APIConnectionError", "stream", <<>>))

\* ---------------------------------------------------------- AIClient.__init__
\* The values a str argument takes: omitted, empty, given.
ArgValues(v) == {None, Some(<<>>), Some(<<v>>)}

\* Every way to pass api_key, base_url and model.
ClientArgs ==
    [api_key : ArgValues("key"), base_url : ArgValues("url"), model : ArgValues("model")]

\* Every state of API_KEY, BASE_URL and MODEL: unset, empty, set.
Environments ==
    [API_KEY : ArgValues("KEY"), BASE_URL : ArgValues("URL"), MODEL : ArgValues("MODEL")]

\* Lines 33-37: the environment is read only when some argument is None,
\* and then `or` replaces every falsy argument.
Resolve(a, env) ==
    IF a.api_key = None \/ a.base_url = None \/ a.model = None
    THEN [api_key |-> Or(a.api_key, env.API_KEY),
          base_url |-> Or(a.base_url, env.BASE_URL),
          model |-> Or(a.model, env.MODEL)]
    ELSE a

\* Mutant of MissingField: the checks run in the opposite order.
MissingFieldReversed(r) ==
    IF ~Truthy(r.model) THEN "model"
    ELSE IF ~Truthy(r.base_url) THEN "base_url"
    ELSE IF ~Truthy(r.api_key) THEN "api_key"
    ELSE ""

\* Lines 40-47: the field the first failing check names, "" when all pass.
MissingField(r) ==
    IF ~Truthy(r.api_key) THEN "api_key"
    ELSE IF ~Truthy(r.base_url) THEN "base_url"
    ELSE IF ~Truthy(r.model) THEN "model"
    ELSE ""

\* AIClient(api_key, base_url, model) as create_client runs it: the values
\* validated, the client or the ValueError raised, and what create_client
\* prints before it re-raises the error.
Construct(a, env) ==
    LET r == Resolve(a, env)
        missing == MissingField(r)
    IN [resolved |-> Some(r),
        client |-> IF missing = "" THEN Some(r) ELSE None,
        exc |-> IF missing = "" THEN None ELSE Some(Exc("ValueError", "AIClient", <<missing>>)),
        printed |-> IF missing = "" THEN <<>>
                    ELSE <<[kind |-> "create_client_error", arg |-> <<missing>>]>>]

\* create_client(api_key, base_url, model)
CreateClient ==
    /\ entry = "create_client"
    /\ pc = "create_client"
    /\ LET made == Construct(args, environ)
       IN /\ resolved' = made.resolved
          /\ client' = made.client
          /\ exc' = made.exc
          /\ result' = made.client
          /\ echoed' = echoed \o made.printed
          /\ pc' = IF made.exc = None THEN "returned" ELSE "raised"
    /\ UNCHANGED <<entry, args, environ, streamVars, opts, fs, opened, mode, lines,
                   call, requests>>

NoStream == /\ print_output = TRUE
            /\ chunks = <<>>
            /\ stream_error = None
            /\ full_response = <<>>
            /\ usage_info = None
            /\ printed = <<>>

\* create_client called with any arguments in any environment.
InitClient ==
    /\ entry = "create_client"
    /\ pc = "create_client"
    /\ exc = None
    /\ result = None
    /\ args \in ClientArgs
    /\ environ \in Environments
    /\ resolved = None
    /\ client = None
    /\ NoStream
    /\ NoCli

NextClient == CreateClient

SpecClient == InitClient /\ [][NextClient]_vars

\* ----------------------------------------------- claims on the construction
\* The argument and the environment variable of each field.
Fields == {<<"api_key", "API_KEY">>, <<"base_url", "BASE_URL">>, <<"model", "MODEL">>}

\* C5: every field falls back to its environment variable whenever its
\* argument is None or empty, whatever the other arguments are: the
\* construction succeeds exactly when every field is non-empty as argument
\* or in the environment, and then holds the argument, else the variable.
C5_IndependentFallback ==
    (entry = "create_client" /\ pc \in {"returned", "raised"}) =>
        /\ client # None <=> \A f \in Fields : Truthy(args[f[1]]) \/ Truthy(environ[f[2]])
        /\ client # None =>
              \A f \in Fields : client[1][f[1]] = Or(args[f[1]], environ[f[2]])

\* C6: a failed construction raises a ValueError naming the first field, in
\* the order api_key, base_url, model, that is still empty when validated;
\* it fails whenever one is; no client and no request is produced.
C6_NamesFirstMissingField ==
    (entry = "create_client" /\ pc \in {"returned", "raised"}) =>
        LET r == resolved[1]
            empty == {f \in {"api_key", "base_url", "model"} : ~Truthy(r[f])}
        IN /\ pc = "raised" <=> empty # {}
           /\ pc = "raised" =>
                /\ exc # None
                /\ exc[1].type = "ValueError"
                /\ exc[1].arg = <<IF "api_key" \in empty THEN "api_key"
                                   ELSE IF "base_url" \in empty THEN "base_url"
                                   ELSE "model">>
                /\ client = None
                /\ result = None
                /\ requests = <<>>
           /\ pc = "returned" => client = Some(r) /\ exc = None

\* C6 witness: base_url and model both missing, base_url named.
C6_Witness ==
    /\ entry = "create_client" /\ pc = "raised"
    /\ Truthy(resolved[1].api_key)
    /\ ~Truthy(resolved[1].base_url)
    /\ ~Truthy(resolved[1].model)
    /\ args.api_key = None
    /\ exc[1].arg = <<"base_url">>

\* ------------------------------------------------------- strings and files
\* "data:image", the prefix image_text_completion tests for.
DataImagePrefix == <<"d", "a", "t", "a", ":", "i", "m", "a", "g", "e">>

\* "data:image/png;base64,", what it puts before an encoded file.
PngUriPrefix == <<"d", "a", "t", "a", ":", "i", "m", "a", "g", "e", "/", "p", "n", "g", ";", "b", "a", "s", "e", "6", "4", ",">>

\* Image arguments: two files, the screenshot, two data URIs, and a path
\* that merely starts with "data:".
ExistingPath == <<"a", ".", "p", "n", "g">>

MissingPath == <<"n", "o", ".", "p", "n", "g">>

ScreenshotPath == <<".", "/", "t", "e", "s", "t", ".", "p", "n", "g">>

DataUriPng == <<"d", "a", "t", "a", ":", "i", "m", "a", "g", "e", "/", "p", "n", "g", ";", "b", "a", "s", "e", "6", "4", ",", "T", "Q", "=", "=">>

DataUriJpeg == <<"d", "a", "t", "a", ":", "i", "m", "a", "g", "e", "/", "j", "p", "e", "g", ";", "b", "a", "s", "e", "6", "4", ",", "T", "Q", "=", "=">>

DataPath == <<"d", "a", "t", "a", ":", "x">>

\* str.startswith
StartsWith(s, prefix) ==
    Len(s) >= Len(prefix) /\ SubSeq(s, 1, Len(prefix)) = prefix

\* The base64 alphabet, by value.
B64Chars == <<"A", "B", "C", "D", "E", "F", "G", "H", "I", "J", "K", "L", "M", "N", "O", "P", "Q", "R", "S", "T", "U", "V", "W", "X", "Y", "Z", "a", "b", "c", "d", "e", "f", "g", "h", "i", "j", "k", "l", "m", "n", "o", "p", "q", "r", "s", "t", "u", "v", "w", "x", "y", "z", "0", "1", "2", "3", "4", "5", "6", "7", "8", "9", "+", "/">>

B64Char(v) == B64Chars[v + 1]

RECURSIVE B64Encode(_)
\* base64.b64encode(bytes).decode("utf-8")
B64Encode(b) ==
    IF Len(b) = 0 THEN <<>>
    ELSE IF Len(b) = 1
    THEN <<B64Char(b[1] \div 4), B64Char((b[1] % 4) * 16), "=", "=">>
    ELSE IF Len(b) = 2
    THEN <<B64Char(b[1] \div 4), B64Char((b[1] % 4) * 16 + b[2] \div 16),
           B64Char((b[2] % 16) * 4), "=">>
    ELSE <<B64Char(b[1] \div 4), B64Char((b[1] % 4) * 16 + b[2] \div 16),
           B64Char((b[2] % 16) * 4 + b[3] \div 64), B64Char(b[3] % 64)>>
         \o B64Encode(SubSeq(b, 4, Len(b)))

\* The contents a file may have: empty, and one to four bytes.
FileBytes == {<<>>, <<77>>, <<77, 97>>, <<77, 97, 110>>, <<255, 0, 16, 131>>}

\* The files on disk: nothing, or ExistingPath with some content.
Filesystems == {<<>>} \cup {[p \in {ExistingPath} |-> b] : b \in FileBytes}

Exists(files, path) == path \in DOMAIN files

\* The default prompts of the source, each a one-token string.
DefaultImageSystemPrompt == <<"(default image system prompt)">>

DefaultTextSystemPrompt == <<"(default assistant system prompt)">>

DefaultImagePrompt == <<"(default image prompt)">>

DefaultWelcome == <<"(default welcome)">>

\* A client as SpecImage and the stream need one.
SomeClient ==
    Some([api_key |-> Some(<<"key">>), base_url |-> Some(<<"url">>), model |-> Some(<<"model">>)])

\* --------------------------------------------------- the completion requests
\* chat_completion's parameters for a request (stream and include_usage at
\* their defaults, True).
Request(kind, cl, c, image_url) ==
    [kind |-> kind,
     model |-> cl.model[1],
     system |-> c.system_prompt,
     prompt |-> c.prompt,
     image_url |-> image_url,
     stream |-> TRUE,
     include_usage |-> TRUE,
     modalities |-> IF kind = "image" THEN <<"text">> ELSE <<>>]

\* chat_completion: the request goes to the transport, which raises or hands
\* back the stream that process_stream then reads.
Dispatch(req, po) ==
    /\ requests' = Append(requests, req)
    /\ \E outcome \in {"ok"} \cup TransportErrors :
          IF outcome = "ok"
          THEN /\ EnterStream(po)
               /\ UNCHANGED exc
          ELSE /\ exc' = Some(Exc(outcome, "create", <<>>))
               /\ pc' = "raised"
               /\ UNCHANGED streamVars

\* Mutant of IsDataUri: only PNG data URIs are recognised.
IsDataUriPngOnly(image_path) == StartsWith(image_path, PngUriPrefix)

\* image_path.startswith("data:image")
IsDataUri(image_path) == StartsWith(image_path, DataImagePrefix)

\* Lines 198-204: the image URL, the paths handed to open(), and the
\* FileNotFoundError open() raises for a path that does not exist.
BuildImageUrl(image_path, files) ==
    IF IsDataUri(image_path)
    THEN [url |-> image_path, opened |-> {}, exc |-> None]
    ELSE IF Exists(files, image_path)
    THEN [url |-> PngUriPrefix \o B64Encode(files[image_path]),
          opened |-> {image_path}, exc |-> None]
    ELSE [url |-> <<>>, opened |-> {image_path},
          exc |-> Some(Exc("FileNotFoundError", "open", image_path))]

\* image_text_completion(prompt, image_path, system_prompt, print_output)
ImageTextCompletion ==
    /\ pc = "image_text_completion"
    /\ LET c == call[1]
           built == BuildImageUrl(c.image_path, fs)
       IN /\ opened' = opened \cup built.opened
          /\ IF built.exc # None
             THEN /\ exc' = built.exc
                  /\ pc' = "raised"
                  /\ UNCHANGED <<requests, streamVars>>
             ELSE Dispatch(Request("image", client[1], c, built.url), c.print_output)
    /\ UNCHANGED <<entry, result, clientVars, opts, fs, mode, lines, call, echoed>>

\* text_completion(prompt, system_prompt, print_output)
TextCompletion ==
    /\ pc = "text_completion"
    /\ LET c == call[1]
       IN Dispatch(Request("text", client[1], c, <<>>), c.print_output)
    /\ UNCHANGED <<entry, result, clientVars, opts, fs, opened, mode, lines, call, echoed>>

\* The image arguments image_text_completion is called with.
ImageArgs == {ExistingPath, MissingPath, DataUriPng, DataUriJpeg, DataPath}

\* image_text_completion called on its own, as analyze_screenshot calls it.
InitImage ==
    /\ entry = "image_text_completion"
    /\ pc = "image_text_completion"
    /\ exc = None
    /\ result = None
    /\ NoStream
    /\ args = [api_key |-> None, base_url |-> None, model |-> None]
    /\ environ = [API_KEY |-> None, BASE_URL |-> None, MODEL |-> None]
    /\ resolved = None
    /\ client = SomeClient
    /\ opts = None
    /\ fs \in Filesystems
    /\ opened = {}
    /\ mode = ""
    /\ lines = <<>>
    /\ \E path \in ImageArgs, po \in BOOLEAN :
          call = Some([fn |-> "image_text_completion", prompt |-> DefaultImagePrompt,
                       image_path |-> path, system_prompt |-> DefaultImageSystemPrompt,
                       print_output |-> po])
    /\ requests = <<>>
    /\ echoed = <<>>

NextImage == ImageTextCompletion \/ NextChunk \/ ChunkBody \/ StreamEnd \/ StreamRaise

SpecImage == InitImage /\ [][NextImage]_vars

\* ------------------------------------------ claims on image_text_completion
\* A string that already is a data URI of an image.
LooksLikeDataUri(s) ==
    /\ Len(s) >= Len(DataImagePrefix)
    /\ \A i \in 1..Len(DataImagePrefix) : s[i] = DataImagePrefix[i]

\* C10: an image argument that is no data URI and names no file makes
\* image_text_completion raise FileNotFoundError with no request issued; a
\* data URI is the image URL of the request as it stands, no file opened.
C10_ImageArgument ==
    (entry = "image_text_completion" /\ pc # "image_text_completion") =>
        LET path == call[1].image_path
        IN /\ (~LooksLikeDataUri(path) /\ ~Exists(fs, path)) =>
                /\ pc = "raised"
                /\ exc = Some(Exc("FileNotFoundError", "open", path))
                /\ requests = <<>>
                /\ result = None
           /\ LooksLikeDataUri(path) =>
                /\ opened = {}
                /\ Len(requests) = 1
                /\ requests[1].image_url = path
           /\ (~LooksLikeDataUri(path) /\ Exists(fs, path)) =>
                /\ Len(requests) = 1
                /\ requests[1].image_url = PngUriPrefix \o B64Encode(fs[path])

\* C10 witness: a path that merely starts with "data:" and names no file.
C10_Witness ==
    /\ entry = "image_text_completion" /\ pc = "raised"
    /\ call[1].image_path = DataPath
    /\ exc[1].type = "FileNotFoundError"
    /\ requests = <<>>

\* C10, the other half: a JPEG data URI reaches the transport unchanged.
C10_WitnessDataUri ==
    /\ entry = "image_text_completion" /\ pc = "returned"
    /\ Len(requests) = 1 /\ requests[1].image_url = DataUriJpeg /\ opened = {}

\* base64 of "Man", "Ma", "M" and of nothing, by the standard's examples.
B64Examples ==
    /\ B64Encode(<<77, 97, 110>>) = <<"T", "W", "F", "u">>
    /\ B64Encode(<<77, 97>>) = <<"T", "W", "E", "=">>
    /\ B64Encode(<<77>>) = <<"T", "Q", "=", "=">>
    /\ B64Encode(<<>>) = <<>>
    /\ B64Encode(<<255, 0, 16, 131>>) = <<"/", "w", "A", "Q", "g", "w", "=", "=">>

\* ---------------------------------------------------------------------- cli
hello == <<"h", "e", "l", "l", "o">>

hi == <<"h", "i">>

exit == <<"e", "x", "i", "t">>

quit == <<"q", "u", "i", "t">>

ExIT == <<"E", "x", "I", "T">>

QUIT == <<"Q", "U", "I", "T">>

exits == <<"e", "x", "i", "t", "s">>

UpperChars == <<"A", "B", "C", "D", "E", "F", "G", "H", "I", "J", "K", "L", "M", "N", "O", "P", "Q", "R", "S", "T", "U", "V", "W", "X", "Y", "Z">>

LowerChars == <<"a", "b", "c", "d", "e", "f", "g", "h", "i", "j", "k", "l", "m", "n", "o", "p", "q", "r", "s", "t", "u", "v", "w", "x", "y", "z">>

\* str.lower(), letter by letter.
LowerChar(c) ==
    IF \E i \in 1..Len(UpperChars) : UpperChars[i] = c
    THEN LowerChars[CHOOSE i \in 1..Len(UpperChars) : UpperChars[i] = c]
    ELSE c

Lower(str) == [i \in 1..Len(str) |-> LowerChar(str[i])]

\* Mutant of IsExit: the line is compared as typed.
IsExitAsTyped(user_input) == user_input \in {exit, quit}

\* user_input.lower() in ["exit", "quit"]
IsExit(user_input) == Lower(user_input) \in {exit, quit}

\* The lines click.prompt may return (it asks again on an empty line).
InputLines == {hi, exit, ExIT, QUIT, exits}

\* The options click hands to cli: -t, -i, -p, --prompt, --start.
CliOptions ==
    [text : {None, Some(<<>>), Some(hello)},
     image : BOOLEAN,
     path : {None, Some(<<>>), Some(ExistingPath), Some(DataUriPng)},
     prompt : {None, Some(<<"(custom system prompt)">>)},
     start : {None, Some(<<"(custom welcome)">>)}]

\* The environments cli runs in: complete, API_KEY empty, MODEL unset.
CliEnvironments ==
    { [API_KEY |-> Some(<<"KEY">>), BASE_URL |-> Some(<<"URL">>), MODEL |-> Some(<<"MODEL">>)],
      [API_KEY |-> Some(<<>>), BASE_URL |-> Some(<<"URL">>), MODEL |-> Some(<<"MODEL">>)],
      [API_KEY |-> Some(<<"KEY">>), BASE_URL |-> Some(<<"URL">>), MODEL |-> None] }

\* The disks cli runs on: empty, or holding ExistingPath.
CliFilesystems == {<<>>, [p \in {ExistingPath} |-> <<77, 97, 110>>]}

\* create_client() as cli calls it: no arguments.
NoArgs == [api_key |-> None, base_url |-> None, model |-> None]

\* Mutant of SelectMode: the text option is tested first.
SelectModeTextFirst(o) ==
    IF Truthy(o.text) THEN "text"
    ELSE IF o.image \/ Truthy(o.path) THEN "image"
    ELSE "interactive"

\* Lines 45, 63, 70: the branch of cli.
SelectMode(o) ==
    IF o.image \/ Truthy(o.path) THEN "image"
    ELSE IF Truthy(o.text) THEN "text"
    ELSE "interactive"

\* x if x else default
OrDefault(o, default) == IF Truthy(o) THEN o[1] ELSE default

\* client = create_client() after `out` was written, then on to `next`
\* with the call `c` prepared; the ValueError of a failed construction
\* propagates.
CreateClientThen(out, c, next) ==
    LET made == Construct(NoArgs, environ)
    IN /\ args' = NoArgs
       /\ resolved' = made.resolved
       /\ client' = made.client
       /\ echoed' = out \o made.printed
       /\ IF made.exc # None
          THEN /\ exc' = made.exc
               /\ pc' = "raised"
               /\ call' = call
          ELSE /\ exc' = exc
               /\ pc' = next
               /\ call' = c

\* What get_screenshot does: the capture saved to ./test.png, or an error
\* of the capture (an OSError, or pyautogui's NotImplementedError).
ScreenshotOutcomes == {"ok", "OSError", "NotImplementedError"}

ScreenshotBytes == <<137, 80, 78, 71>>

\* Lines 46-62: the image mode up to the call of image_text_completion.
CliImage ==
    /\ pc = "cli"
    /\ SelectMode(opts) = "image"
    /\ mode' = "image"
    /\ \E shot \in (IF Truthy(opts.path) THEN {"path"} ELSE ScreenshotOutcomes) :
          LET image_prompt == OrDefault(opts.text, DefaultImagePrompt)
              image_path == IF shot = "path" THEN opts.path[1] ELSE ScreenshotPath
              system_prompt == OrDefault(opts.prompt, DefaultImageSystemPrompt)
              files == IF shot = "ok"
                       THEN [p \in DOMAIN fs \cup {ScreenshotPath} |->
                               IF p = ScreenshotPath THEN ScreenshotBytes ELSE fs[p]]
                       ELSE fs
          IN /\ fs' = files
             /\ IF shot \notin {"path", "ok"}
                THEN /\ exc' = Some(Exc(shot, "get_screenshot", <<>>))
                     /\ pc' = "raised"
                     /\ UNCHANGED <<echoed, call, args, resolved, client>>
                ELSE IF ~Exists(files, image_path)
                THEN /\ echoed' = Append(echoed, [kind |-> "missing_image", arg |-> image_path])
                     /\ pc' = "cli_returned"
                     /\ UNCHANGED <<exc, call, args, resolved, client>>
                ELSE CreateClientThen(
                            Append(echoed, [kind |-> "analyzing", arg |-> image_path]),
                            Some([fn |-> "image_text_completion", prompt |-> image_prompt,
                                  image_path |-> image_path, system_prompt |-> system_prompt,
                                  print_output |-> TRUE]),
                            "image_text_completion")
    /\ UNCHANGED <<entry, result, streamVars, environ, opts, opened, lines, requests>>

\* Lines 64-69: the text mode up to the call of text_completion.
CliText ==
    /\ pc = "cli"
    /\ SelectMode(opts) = "text"
    /\ mode' = "text"
    /\ CreateClientThen(
           echoed,
           Some([fn |-> "text_completion", prompt |-> opts.text[1], image_path |-> <<>>,
                 system_prompt |-> OrDefault(opts.prompt, DefaultTextSystemPrompt),
                 print_output |-> TRUE]),
           "text_completion")
    /\ UNCHANGED <<entry, result, streamVars, environ, opts, fs, opened, lines,
                   requests>>

\* Lines 71-79: the interactive mode up to its loop.
CliInteractive ==
    /\ pc = "cli"
    /\ SelectMode(opts) = "interactive"
    /\ mode' = "interactive"
    /\ CreateClientThen(
           Append(echoed, [kind |-> "welcome", arg |-> OrDefault(opts.start, DefaultWelcome)]),
           call, "prompt")
    /\ UNCHANGED <<entry, result, streamVars, environ, opts, fs, opened, lines, requests>>

\* Lines 80-86: one turn of the loop: a line is read (or click.prompt
\* raises Abort at the end of the input); an exit keyword breaks, and cli
\* returns; any other line is the prompt of a text_completion call.
CliPrompt ==
    /\ pc = "prompt"
    /\ \/ /\ Len(lines) < MaxLines
          /\ \E user_input \in InputLines :
                /\ lines' = Append(lines, user_input)
                /\ IF IsExit(user_input)
                   THEN /\ pc' = "cli_returned"
                        /\ call' = call
                   ELSE /\ pc' = "text_completion"
                        /\ call' = Some([fn |-> "text_completion", prompt |-> user_input,
                                         image_path |-> <<>>,
                                         system_prompt |->
                                             OrDefault(opts.prompt, DefaultTextSystemPrompt),
                                         print_output |-> TRUE])
          /\ UNCHANGED exc
       \/ /\ exc' = Some(Exc("Abort", "prompt", <<>>))
          /\ pc' = "raised"
          /\ UNCHANGED <<lines, call>>
    /\ UNCHANGED <<entry, result, streamVars, clientVars, opts, fs, opened, mode,
                   requests, echoed>>

\* A completion call of cli returns: its value is dropped with the frame of
\* process_stream; the loop goes on, the other modes are done.
CliAfterCompletion ==
    /\ entry = "cli"
    /\ pc = "returned"
    /\ pc' = IF mode = "interactive" THEN "prompt" ELSE "cli_returned"
    /\ result' = None
    /\ print_output' = TRUE
    /\ chunks' = <<>>
    /\ stream_error' = None
    /\ full_response' = <<>>
    /\ usage_info' = None
    /\ printed' = <<>>
    /\ UNCHANGED <<entry, exc, clientVars, cliVars>>

\* Mutant of Handler: the except OSError clause is missing.
HandlerNoOSError(e) ==
    IF IsInstance(e, "FileNotFoundError") THEN "file_not_found"
    ELSE IF IsInstance(e, "ValueError") THEN "value_error"
    ELSE ""

\* Lines 87-92: the except clause that takes the exception, "" for none.
Handler(e) ==
    IF IsInstance(e, "FileNotFoundError") THEN "file_not_found"
    ELSE IF IsInstance(e, "ValueError") THEN "value_error"
    ELSE IF IsInstance(e, "OSError") THEN "os_error"
    ELSE ""

\* An exception reaches the try statement of cli: a matching clause echoes
\* its message and cli returns; without one the exception leaves cli.
CliExcept ==
    /\ entry = "cli"
    /\ pc = "raised"
    /\ LET handler == Handler(exc[1])
       IN IF handler # ""
          THEN /\ echoed' = Append(echoed, [kind |-> handler, arg |-> exc[1].arg])
               /\ pc' = "cli_returned"
          ELSE /\ echoed' = echoed
               /\ pc' = "cli_escaped"
    /\ UNCHANGED <<entry, exc, result, streamVars, clientVars, opts, fs, opened, mode,
                   lines, call, requests>>

\* The command run with any options, on any disk, in any environment.
InitCli ==
    /\ entry = "cli"
    /\ pc = "cli"
    /\ exc = None
    /\ result = None
    /\ NoStream
    /\ args = NoArgs
    /\ environ \in CliEnvironments
    /\ resolved = None
    /\ client = None
    /\ opts \in CliOptions
    /\ fs \in CliFilesystems
    /\ opened = {}
    /\ mode = ""
    /\ lines = <<>>
    /\ call = None
    /\ requests = <<>>
    /\ echoed = <<>>

NextCli ==
    \/ CliImage
    \/ CliText
    \/ CliInteractive
    \/ CliPrompt
    \/ TextCompletion
    \/ ImageTextCompletion
    \/ NextChunk
    \/ ChunkBody
    \/ StreamEnd
    \/ StreamRaise
    \/ CliAfterCompletion
    \/ CliExcept

SpecCli == InitCli /\ [][NextCli]_vars

\* ------------------------------------------------------- claims on the cli
\* Two characters that are the same letter, whatever their case.
SameLetter(a, b) ==
    a = b \/ \E i \in 1..Len(UpperChars) : {a, b} = {UpperChars[i], LowerChars[i]}

\* A line that is an exit keyword but for the case of its letters.
ExitLine(l) ==
    \E k \in {exit, quit} :
        Len(l) = Len(k) /\ \A i \in 1..Len(k) : SameLetter(l[i], k[i])

\* The prompts of the requests dispatched, in order.
Prompts == [i \in 1..Len(requests) |-> requests[i].prompt]

\* C7: in interactive mode the requests dispatched are, in input order, one
\* for each line read that is no exit keyword (the line just read still
\* awaiting its request while text_completion is entered); only the last
\* line read can be an exit keyword, in any case of letters, and with it
\* cli has returned without a request for it.
C7_OneRequestPerLineBeforeExit ==
    (entry = "cli" /\ mode = "interactive") =>
        LET n == Len(lines)
            ended == n > 0 /\ ExitLine(lines[n])
        IN /\ \A i \in 1..(n - 1) : ~ExitLine(lines[i])
           /\ ended => pc = "cli_returned"
           /\ Prompts = IF ended \/ pc = "text_completion"
                         THEN SubSeq(lines, 1, n - 1)
                         ELSE lines
           /\ \A i \in 1..Len(requests) : requests[i].kind = "text"

\* C7 witness: "hi" got its request, "ExIT" ended the loop.
C7_Witness ==
    /\ entry = "cli" /\ mode = "interactive" /\ pc = "cli_returned"
    /\ lines = <<hi, ExIT>>
    /\ Prompts = <<hi>>

\* The exception classes of the transport that cli has an except clause for.
CaughtByCli == {"TimeoutError", "OSError", "ValueError"}

IsErrorEcho(e) == e.kind \in {"file_not_found", "value_error", "os_error"}

\* C8 as stated: an error of the transport (an Exception of whatever class)
\* raised while process_stream reads the stream reaches the handler of cli,
\* which takes it: it never leaves cli.
C8_EveryStreamFailureCaught ==
    (entry = "cli" /\ stream_error # None /\ IsInstance(stream_error[1], "Exception")) =>
        pc # "cli_escaped"

\* C8 as amended: what the iterator raises reaches the try statement of cli
\* unchanged, no result returned; cli echoes a message and returns when it
\* is a ValueError or an OSError (TimeoutError, FileNotFoundError, ...), and
\* any other exception (APIConnectionError, KeyboardInterrupt) leaves cli.
C8_StreamFailureCaughtByClass ==
    (entry = "cli" /\ stream_error # None) =>
        /\ exc = stream_error
        /\ result = None
        /\ pc \in {"raised", "cli_returned", "cli_escaped"}
        /\ pc = "cli_returned" =>
              /\ exc[1].type \in CaughtByCli
              /\ echoed # <<>>
              /\ IsErrorEcho(echoed[Len(echoed)])
        /\ pc = "cli_escaped" =>
              /\ exc[1].type \notin CaughtByCli
              /\ SelectSeq(echoed, IsErrorEcho) = <<>>

\* C8 witness: a TimeoutError after one fragment, caught by except OSError.
C8_Witness ==
    /\ entry = "cli" /\ pc = "cli_returned"
    /\ stream_error = Some(Exc("TimeoutError", "stream", <<>>))
    /\ Len(chunks) = 1
    /\ EmittedDeltas = <<He>>
    /\ echoed[Len(echoed)].kind = "os_error"

\* C9: every run takes exactly one branch: the image mode when -i or a
\* non-empty -p is given (a non-empty -t then being its prompt), else the
\* text mode when a non-empty -t is given, else the interactive mode; the
\* text and image modes dispatch at most one request, read no line, and
\* never come back to dispatch another.
C9_ModeSelection ==
    (entry = "cli" /\ pc # "cli") =>
        /\ mode = IF opts.image \/ Truthy(opts.path) THEN "image"
                   ELSE IF Truthy(opts.text) THEN "text"
                   ELSE "interactive"
        /\ mode \in {"image", "text"} =>
              /\ Len(requests) <= 1
              /\ lines = <<>>
              /\ pc # "prompt"
              /\ Len(requests) = 1 => pc \notin {"text_completion", "image_text_completion"}
        /\ mode = "image" =>
              \A i \in 1..Len(requests) :
                  /\ requests[i].kind = "image"
                  /\ requests[i].prompt =
                        IF Truthy(opts.text) THEN opts.text[1] ELSE DefaultImagePrompt
        /\ mode = "text" =>
              \A i \in 1..Len(requests) :
                  requests[i].kind = "text" /\ requests[i].prompt = opts.text[1]
        /\ pc \in {"text_completion", "image_text_completion"} =>
              call[1].fn = (IF mode = "image" THEN "image_text_completion" ELSE "text_completion")

\* C9 witness: -t with -p: the image mode, one request, the text its prompt.
C9_Witness ==
    /\ entry = "cli" /\ pc = "cli_returned"
    /\ mode = "image"
    /\ opts.text = Some(hello) /\ ~opts.image /\ opts.path = Some(ExistingPath)
    /\ Len(requests) = 1
    /\ requests[1].prompt = hello
    /\ requests[1].image_url = PngUriPrefix \o <<"T", "W", "F", "u">>

=============================================================================
